---------------------------- MODULE Spec2Model ----------------------------
(***************************************************************************)
(* HTML feature extraction of domainradar-training:                        *)
(* src/feature-extraction/transformers/html_transformer.py                 *)
(*                                                                         *)
(* Two specifications share this module.                                   *)
(*   Spec    transform_html: the partition of a batch into chunks, the     *)
(*           loky workers running para_transform_chunk step by step under  *)
(*           the SIGALRM deadline of Timeout, and the merge.               *)
(*   SpecFn  the extractors get_tags_f, get_text_f and get_js_f called     *)
(*           directly (no deadline armed) on inputs drawn from bounded     *)
(*           sets.                                                         *)
(*                                                                         *)
(* Python values are tagged records ([tag |-> "none"], [tag |-> "str",     *)
(* v |-> ...]) so that None, NaN, str, dict, list and soup stay apart.     *)
(* A str is a sequence of one-character strings; a float is kept in        *)
(* fixed point (FloatScale units).                                         *)
(***************************************************************************)
EXTENDS Integers, Sequences, FiniteSets, TLC

\* needles and attribute names of get_tags_f (lines 110-169)
S_http == <<"h","t","t","p">>
S_com == <<".","c","o","m">>
S_php == <<".","p","h","p">>
S_hash == <<"#">>
S_css == <<".","c","s","s">>
S_jsvoid == <<"j","a","v","a","s","c","r","i","p","t",":","v","o","i","d">>
S_jsvoid_call == <<"j","a","v","a","s","c","r","i","p","t",":","v","o","i","d","(",")">>
S_jsvoid0 == <<"j","a","v","a","s","c","r","i","p","t",":","v","o","i","d","(","0",")">>
S_display_none == <<"d","i","s","p","l","a","y",":"," ","n","o","n","e">>
S_visibility_hidden == <<"v","i","s","i","b","i","l","i","t","y",":"," ","h","i","d","d","e","n">>
S_opacity_0 == <<"o","p","a","c","i","t","y",":"," ","0">>
S_position_absolute == <<"p","o","s","i","t","i","o","n",":"," ","a","b","s","o","l","u","t","e">>
S_hidden == <<"h","i","d","d","e","n">>
S_href == <<"h","r","e","f">>
S_src == <<"s","r","c">>
S_async == <<"a","s","y","n","c">>
S_type == <<"t","y","p","e">>
S_action == <<"a","c","t","i","o","n">>
S_style == <<"s","t","y","l","e">>
S_rel == <<"r","e","l">>
S_nonce == <<"n","o","n","c","e">>
S_attr_href_hash == <<"h","r","e","f","=","\"","#","\"">>
S_attr_type_password == <<"t","y","p","e","=","\"","p","a","s","s","w","o","r","d","\"">>
S_attr_type_rss == <<"t","y","p","e","=","\"","a","p","p","l","i","c","a","t","i","o","n","/","r","s","s","+","x","m","l","\"">>
S_attr_rel_shortlink == <<"r","e","l","=","\"","s","h","o","r","t","l","i","n","k","\"">>
S_attr_rel_icon == <<"r","e","l","=","\"","s","h","o","r","t","c","u","t"," ","i","c","o","n","\"">>
S_attr_rel_stylesheet == <<"r","e","l","=","\"","s","t","y","l","e","s","h","e","e","t","\"">>
S_attr_href_content == <<"h","r","e","f","=","\"","#","c","o","n","t","e","n","t","\"">>
S_attr_href_void == <<"h","r","e","f","=","\"","j","a","v","a","s","c","r","i","p","t",":","v","o","i","d","(","0",")","\"">>

\* literals of _patterns (lines 64-88)
P_createElement == <<"c","r","e","a","t","e","E","l","e","m","e","n","t","(">>
P_write == <<"w","r","i","t","e","(">>
P_charCodeAt == <<"c","h","a","r","C","o","d","e","A","t","(">>
P_concat == <<"c","o","n","c","a","t","(">>
P_escape == <<"e","s","c","a","p","e","(">>
P_eval == <<"e","v","a","l","(">>
P_exec == <<"e","x","e","c","(">>
P_fromCharCode == <<"f","r","o","m","C","h","a","r","C","o","d","e","(">>
P_link == <<"l","i","n","k","(">>
P_parseInt == <<"p","a","r","s","e","I","n","t","(">>
P_replace == <<"r","e","p","l","a","c","e","(">>
P_search == <<"s","e","a","r","c","h","(">>
P_substring == <<"s","u","b","s","t","r","i","n","g","(">>
P_unescape == <<"u","n","e","s","c","a","p","e","(">>
P_addEventListener == <<"a","d","d","E","v","e","n","t","L","i","s","t","e","n","e","r","(">>
P_setInterval == <<"s","e","t","I","n","t","e","r","v","a","l","(">>
P_setTimeout == <<"s","e","t","T","i","m","e","o","u","t","(">>
P_push == <<"p","u","s","h","(">>
P_indexOf == <<"i","n","d","e","x","O","f","(">>
P_documentWrite == <<"d","o","c","u","m","e","n","t",".","w","r","i","t","e","(">>
P_get == <<"g","e","t","(">>
P_find == <<"f","i","n","d","(">>
P_documentCreateElement == <<"d","o","c","u","m","e","n","t",".","c","r","e","a","t","e","E","l","e","m","e","n","t","(">>
P_windowSetTimeout == <<"w","i","n","d","o","w",".","s","e","t","T","i","m","e","o","u","t","(">>
P_windowSetInterval == <<"w","i","n","d","o","w",".","s","e","t","I","n","t","e","r","v","a","l","(">>

\* keywords of _text_patterns[0] (line 95) and the literal of line 174
K_suspended == <<"s","u","s","p","e","n","d","e","d">>
K_blocked == <<"b","l","o","c","k","e","d">>
K_forbidden == <<"f","o","r","b","i","d","d","e","n">>
K_denied == <<"d","e","n","i","e","d">>
K_restricted == <<"r","e","s","t","r","i","c","t","e","d">>
S_None == <<"N","o","n","e">>

\* markup written by str(script) (line 215)
M_open == <<"<","s","c","r","i","p","t">>
M_gt == <<">">>
M_close == <<"<","/","s","c","r","i","p","t",">">>
M_space == <<" ">>
M_eqq == <<"=","\"">>
M_q == <<"\"">>

\* attribute values and texts of the documents the model draws
V_evil == <<"h","t","t","p",":","/","/","e","v","i","l",".","c","o","m">>
V_x_php == <<"h","t","t","p",":","/","/","x",".","c","o","m","/","a",".","p","h","p">>
V_local == <<"/","a","b","o","u","t">>
V_text_js == <<"t","e","x","t","/","j","a","v","a","s","c","r","i","p","t">>
V_nonce == <<"n","0","n","c","e","_","4","f","2","c","9","a","7","b","1","e","6","d","3","a","5","8">>
V_password == <<"p","a","s","s","w","o","r","d">>
V_stylesheet == <<"s","t","y","l","e","s","h","e","e","t">>
V_main_css == <<"m","a","i","n",".","c","s","s">>
V_cdn_js == <<"h","t","t","p","s",":","/","/","c","d","n",".","x","/","a",".","j","s">>
V_empty == <<>>
B_eval == <<"e","v","a","l","(","x",")">>
B_eval2 == <<"e","v","a","l","(","x",")",";","e","v","a","l","(","x",")">>
B_eval2_write == <<"e","v","a","l","(","x",")",";","e","v","a","l","(","x",")",";","d","o","c","u","m","e","n","t",".","w","r","i","t","e","(","y",")">>
B_write == <<"d","o","c","u","m","e","n","t",".","w","r","i","t","e","(","y",")">>
B_unescape == <<"u","n","e","s","c","a","p","e","(","s",")",";","n",".","e","s","c","a","p","e","(","t",")",";","e","s","c","a","p","e","(","u",")">>
B_hex == <<"a","=","\"","\\","x","4","1","\\","u","0","0","4","1","\\","x","4","\"">>
B_long == <<"v","a","r"," ","a","b","c","d","e","f","g","h","i","j","0","1","2","3","4","5","6","7","8","9","=","1",";","a","b","c","d","e","f","g","h","i","j","0","1","2","3","4","5","6","7","8">>
B_plain == <<"x","=","1">>
T_empty_html == <<"<","h","t","m","l",">","<","/","h","t","m","l",">">>
T_two_anchors == <<"<","a"," ","h","r","e","f","=","\"","h","t","t","p",":","/","/","e","v","i","l",".","c","o","m","\"",">","x","<","/","a",">","<","a"," ","h","r","e","f","=","\"","#","\"",">","y","<","/","a",">">>
T_page == <<"<","a"," ","h","r","e","f","=","#",">","x","<","/","a",">","<","s","c","r","i","p","t",">","e","v","a","l","(","x",")","<","/","s","c","r","i","p","t",">">>
T_blocked == <<"A","c","c","e","s","s"," "," ","D","e","n","i","e","d","\n","s","i","t","e"," ","b","l","o","c","k","e","d">>
T_words == <<"a"," ","b","b"," "," ","a","\n">>

-----------------------------------------------------------------------------
(* Bounds of the model.                                                    *)
\* rows of the batch given to transform_html
MaxRows == 3
\* chunk_size is drawn from 1..MaxChunkSize
MaxChunkSize == 2
\* elements of a parse tree drawn for SpecFn
MaxElems == 2

(* Program constants.                                                      *)
\* {20,} of the longVariableName pattern
LongVarMin == 20
\* n_jobs the model runs transform_html with (the code's default is 11)
NJobs == 2
\* floats (len/len quotients of lines 166 and 181) in units of 1/FloatScale
FloatScale == 60

-----------------------------------------------------------------------------
(* str helpers.                                                            *)

\* F(x) with x evaluated once
With(x, F(_)) == CHOOSE r \in {F(v) : v \in {x}} : TRUE

\* s[i:i+len(p)] == p
MatchAt(p, s, i) ==
    /\ i + Len(p) - 1 <= Len(s)
    /\ \A k \in 1..Len(p) : s[i + k - 1] = p[k]

\* Python's `p in s` for two str
Contains(p, s) == \E i \in 1..(Len(s) + 1) : MatchAt(p, s, i)

IsDigit(c) == c \in {"0","1","2","3","4","5","6","7","8","9"}
IsHex(c) == IsDigit(c) \/ c \in {"a","b","c","d","e","f","A","B","C","D","E","F"}
IsLetter(c) ==
    c \in {"a","b","c","d","e","f","g","h","i","j","k","l","m","n","o","p","q","r",
           "s","t","u","v","w","x","y","z","A","B","C","D","E","F","G","H","I","J",
           "K","L","M","N","O","P","Q","R","S","T","U","V","W","X","Y","Z"}
\* [a-zA-Z0-9_] and, on the ASCII texts of the model, \w
IsWordChar(c) == IsLetter(c) \/ IsDigit(c) \/ c = "_"
\* \s, and what str.split() splits on
IsSpace(c) == c \in {" ", "\n", "\t", "\r"}

\* str.lower() of one character, for re.IGNORECASE
LowerChar(c) ==
    CASE c = "A" -> "a" [] c = "B" -> "b" [] c = "C" -> "c" [] c = "D" -> "d"
      [] c = "E" -> "e" [] c = "F" -> "f" [] c = "G" -> "g" [] c = "H" -> "h"
      [] c = "I" -> "i" [] c = "J" -> "j" [] c = "K" -> "k" [] c = "L" -> "l"
      [] c = "M" -> "m" [] c = "N" -> "n" [] c = "O" -> "o" [] c = "P" -> "p"
      [] c = "Q" -> "q" [] c = "R" -> "r" [] c = "S" -> "s" [] c = "T" -> "t"
      [] c = "U" -> "u" [] c = "V" -> "v" [] c = "W" -> "w" [] c = "X" -> "x"
      [] c = "Y" -> "y" [] c = "Z" -> "z" [] OTHER -> c
Lower(s) == [i \in 1..Len(s) |-> LowerChar(s[i])]

\* the end (inclusive) of the run of characters satisfying Test that starts at i
RECURSIVE RunEnd(_, _, _)
RunEnd(s, i, word) ==
    IF i + 1 <= Len(s) /\ (IF word THEN IsWordChar(s[i + 1]) ELSE IsSpace(s[i + 1]))
    THEN RunEnd(s, i + 1, word)
    ELSE i

\* \b before position i (between s[i-1] and s[i]; i may be Len(s)+1)
WordBoundary(s, i) ==
    LET before == i > 1 /\ i - 1 <= Len(s) /\ IsWordChar(s[i - 1])
        after  == i <= Len(s) /\ IsWordChar(s[i])
    IN  before # after

-----------------------------------------------------------------------------
(* The script-pattern registry and get_js_f.                               *)

\* _patterns: key, and the compiled pattern as kind plus literal
_patterns == <<
    [key |-> "createElement",         kind |-> "lit",     lit |-> P_createElement],
    [key |-> "write",                 kind |-> "lit",     lit |-> P_write],
    [key |-> "charCodeAt",            kind |-> "lit",     lit |-> P_charCodeAt],
    [key |-> "concat",                kind |-> "lit",     lit |-> P_concat],
    [key |-> "escape",                kind |-> "notn",    lit |-> P_escape],
    [key |-> "eval",                  kind |-> "lit",     lit |-> P_eval],
    [key |-> "exec",                  kind |-> "lit",     lit |-> P_exec],
    [key |-> "fromCharCode",          kind |-> "lit",     lit |-> P_fromCharCode],
    [key |-> "link",                  kind |-> "lit",     lit |-> P_link],
    [key |-> "parseInt",              kind |-> "lit",     lit |-> P_parseInt],
    [key |-> "replace",               kind |-> "lit",     lit |-> P_replace],
    [key |-> "search",                kind |-> "lit",     lit |-> P_search],
    [key |-> "substring",             kind |-> "lit",     lit |-> P_substring],
    [key |-> "unescape",              kind |-> "lit",     lit |-> P_unescape],
    [key |-> "addEventListener",      kind |-> "lit",     lit |-> P_addEventListener],
    [key |-> "setInterval",           kind |-> "lit",     lit |-> P_setInterval],
    [key |-> "setTimeout",            kind |-> "lit",     lit |-> P_setTimeout],
    [key |-> "push",                  kind |-> "lit",     lit |-> P_push],
    [key |-> "indexOf",               kind |-> "lit",     lit |-> P_indexOf],
    [key |-> "documentWrite",         kind |-> "lit",     lit |-> P_documentWrite],
    [key |-> "get",                   kind |-> "lit",     lit |-> P_get],
    [key |-> "find",                  kind |-> "lit",     lit |-> P_find],
    [key |-> "documentCreateElement", kind |-> "lit",     lit |-> P_documentCreateElement],
    [key |-> "windowSetTimeout",      kind |-> "lit",     lit |-> P_windowSetTimeout],
    [key |-> "windowSetInterval",     kind |-> "lit",     lit |-> P_windowSetInterval],
    [key |-> "hexEncoding",           kind |-> "hex",     lit |-> <<"\\","x">>],
    [key |-> "unicodeEncoding",       kind |-> "unicode", lit |-> <<"\\","u">>],
    [key |-> "longVariableName",      kind |-> "longvar", lit |-> <<>>] >>

\* the end (inclusive) of the match of pattern p that starts at s[i], 0 if none
MatchEnd(p, s, i) ==
    IF p.kind = "longvar"
    THEN \* \b[a-zA-Z0-9_]{20,}\b : greedy, so the whole run of word characters
         IF IsWordChar(s[i]) /\ WordBoundary(s, i)
            /\ RunEnd(s, i, TRUE) - i + 1 >= LongVarMin
         THEN RunEnd(s, i, TRUE) ELSE 0
    ELSE IF s[i] # p.lit[1] \/ ~MatchAt(p.lit, s, i) THEN 0
    ELSE CASE p.kind = "lit" -> i + Len(p.lit) - 1
           [] p.kind = "notn" ->
                \* (?<!n)escape\(
                IF ~(i > 1 /\ s[i - 1] = "n") THEN i + Len(p.lit) - 1 ELSE 0
           [] p.kind = "hex" ->
                \* \\x[0-9A-Fa-f]{2}
                IF i + 3 <= Len(s) /\ \A k \in 2..3 : IsHex(s[i + k]) THEN i + 3 ELSE 0
           [] p.kind = "unicode" ->
                \* \\u[0-9A-Fa-f]{4}
                IF i + 5 <= Len(s) /\ \A k \in 2..5 : IsHex(s[i + k]) THEN i + 5 ELSE 0

\* len(pattern.findall(s)) from position i on: the leftmost match, then the
\* leftmost one after its end, and so on (non-overlapping)
RECURSIVE FindallCount(_, _, _)
FindallCount(p, s, i) ==
    With({j \in i..Len(s) : MatchEnd(p, s, j) > 0},
         LAMBDA starts :
            IF starts = {} THEN 0
            ELSE LET first == CHOOSE j \in starts : \A k \in starts : j <= k
                 IN  1 + FindallCount(p, s, MatchEnd(p, s, first) + 1))

-----------------------------------------------------------------------------
(* Python values.                                                          *)
None == [tag |-> "none"]
\* float('nan'): what pandas holds for a missing cell
NaN == [tag |-> "nan"]
Str(s) == [tag |-> "str", v |-> s]
\* a BeautifulSoup object: its elements in document order (find_all is recursive,
\* so nesting does not matter to any feature)
Soup(elems) == [tag |-> "soup", v |-> elems]
List(xs) == [tag |-> "list", v |-> xs]

\* a bs4 Tag: name, attributes in source order as <<key, value>>, string content
Tag(name, attrs, text) == [name |-> name, attrs |-> attrs, text |-> text]

\* Tag.has_attr(key)
has_attr(e, key) == \E i \in 1..Len(e.attrs) : e.attrs[i][1] = key

\* Tag.get(key, default)
get(e, key, default) ==
    IF has_attr(e, key)
    THEN (CHOOSE a \in {e.attrs[i] : i \in 1..Len(e.attrs)} : a[1] = key)[2]
    ELSE default

\* soup.find_all(name)
find_all(soup, name) == SelectSeq(soup, LAMBDA e : e.name = name)

\* soup.find_all(True) and soup.find_all()
find_all_any(soup) == soup

\* get_elements(soup, tag, attr): find_all(tag, {attr: True})
get_elements(soup, tag, attr) ==
    SelectSeq(soup, LAMBDA e : e.name = tag /\ has_attr(e, attr))

\* the attributes as bs4 writes them:  key="value"
RECURSIVE RenderAttrs(_)
RenderAttrs(attrs) ==
    IF attrs = <<>> THEN <<>>
    ELSE M_space \o Head(attrs)[1] \o M_eqq \o Head(attrs)[2] \o M_q
         \o RenderAttrs(Tail(attrs))

\* str(script) of line 215: the element's markup, not only its body
str_script(e) == M_open \o RenderAttrs(e.attrs) \o M_gt \o e.text \o M_close

\* one pattern's total over the rendered scripts texts[k..]
RECURSIVE SumMatches(_, _, _)
SumMatches(p, texts, k) ==
    IF k > Len(texts) THEN 0
    ELSE FindallCount(p, texts[k], 1) + SumMatches(p, texts, k + 1)

\* get_js_f with dic created anew for every script: the last script's counts
get_js_f_last_script_only(js) ==
    IF js.tag = "none" THEN [i \in 1..Len(_patterns) |-> -1]
    ELSE IF js.v = <<>> THEN [i \in 1..Len(_patterns) |-> 0]
    ELSE [i \in 1..Len(_patterns) |->
            FindallCount(_patterns[i], str_script(js.v[Len(js.v)]), 1)]

\* get_js_f(js): dic.values() in the key order of _patterns
get_js_f(js) ==
    IF js.tag = "none" THEN [i \in 1..Len(_patterns) |-> -1]
    ELSE IF js.v = <<>> THEN [i \in 1..Len(_patterns) |-> 0]
    ELSE With([k \in 1..Len(js.v) |-> str_script(js.v[k])],
              LAMBDA texts : [i \in 1..Len(_patterns) |-> SumMatches(_patterns[i], texts, 1)])

\* line 226-227: the script elements without a src attribute, None without a soup
js_inline_of(soup) ==
    IF soup.tag = "none" THEN None
    ELSE List(SelectSeq(find_all(soup.v, "script"), LAMBDA e : ~has_attr(e, S_src)))

-----------------------------------------------------------------------------
(* get_tags_f.                                                             *)

Count(xs, Test(_)) == Len(SelectSeq(xs, Test))

\* the number of keys of  {tag.name: ... for tag in soup.find_all()}
NumTagNames(soup) == Cardinality({soup[i].name : i \in 1..Len(soup)})

\* Counter(hrefs).most_common(1)[0][1]
MostCommonCount(hrefs) ==
    LET n(i) == Cardinality({j \in 1..Len(hrefs) : hrefs[j] = hrefs[i]})
    IN  CHOOSE m \in 1..Len(hrefs) :
            /\ \E i \in 1..Len(hrefs) : n(i) = m
            /\ \A i \in 1..Len(hrefs) : n(i) <= m

\* a / b of two ints, as a float in fixed point
Quotient(a, b) == (a * FloatScale) \div b

\* the style tests shared by hidden_elements and hidden_inputs (lines 128-131, 135-138)
HiddenStyle(e) ==
    LET style == get(e, S_style, V_empty)
    IN  \/ Contains(S_display_none, style)
        \/ Contains(S_visibility_hidden, style)
        \/ Contains(S_opacity_0, style)
        \/ Contains(S_position_absolute, style)

\* line 116
no_hrefs_flag(hrefs) == Len(hrefs) = 0

\* line 117 with >= for >
external_hrefs_flag_ge(hrefs_http, hrefs) ==
    IF hrefs # <<>> THEN 2 * Len(hrefs_http) >= Len(hrefs) ELSE FALSE

\* line 117: len(hrefs_http) / len(hrefs) > 0.5 if hrefs else 0
external_hrefs_flag(hrefs_http, hrefs) ==
    IF hrefs # <<>> THEN 2 * Len(hrefs_http) > Len(hrefs) ELSE FALSE

\* the guard `if hrefs else 0` of line 118 dropped, a zero quotient for no hrefs
internal_hrefs_flag_unguarded(hrefs_internal, hrefs) ==
    2 * Len(hrefs_internal) <= Len(hrefs)

\* line 118: len(hrefs_internal) / len(hrefs) <= 0.5 if hrefs else 0
internal_hrefs_flag(hrefs_internal, hrefs) ==
    IF hrefs # <<>> THEN 2 * Len(hrefs_internal) <= Len(hrefs) ELSE FALSE

\* line 166, with the integer of its else branch
html_most_common_of(hrefs) ==
    IF hrefs # <<>> THEN Quotient(MostCommonCount(hrefs), Len(hrefs)) ELSE 0

\* get_tags_f(soup). exc = "anchors" is a call in which an exception is raised
\* inside the try block of lines 108-112 and caught at line 113.
get_tags_f(soup, exc) ==
    IF soup.tag = "none" THEN [i \in 1..53 |-> -1]
    ELSE
    LET s == soup.v
        tags(name) == find_all(s, name)
        caught == exc = "anchors"
        anchors == IF caught THEN <<>> ELSE tags("a")
        with_href == SelectSeq(anchors, LAMBDA a : get(a, S_href, V_empty) # V_empty)
        hrefs == [i \in 1..Len(with_href) |-> get(with_href[i], S_href, V_empty)]
        hrefs_http == SelectSeq(hrefs, LAMBDA h : Contains(S_http, h))
        hrefs_internal == SelectSeq(hrefs, LAMBDA h : ~Contains(S_http, h))
        form_actions == get_elements(s, "form", S_action)
        action(f) == get(f, S_action, V_empty)
        malicious_form ==
            \E i \in 1..Len(form_actions) :
                \/ Contains(S_http, action(form_actions[i]))
                \/ Contains(S_php, action(form_actions[i]))
                \/ Contains(S_hash, action(form_actions[i]))
                \/ Contains(S_jsvoid, action(form_actions[i]))
        hidden_elements ==
            SelectSeq(find_all_any(s), LAMBDA e : has_attr(e, S_hidden) \/ HiddenStyle(e))
        hidden_inputs ==
            SelectSeq(find_all(s, "input"),
                      LAMBDA e : (has_attr(e, S_type) /\ get(e, S_type, V_empty) = S_hidden)
                                 \/ HiddenStyle(e))
        int(b) == IF b THEN 1 ELSE 0
    IN  << NumTagNames(s),
           Len(tags("p")),
           Len(tags("div")),
           Len(tags("title")),
           Len(get_elements(s, "script", S_src)),
           Len(find_all(s, "link")),
           Len(tags("script")),
           Len(get_elements(s, "script", S_async)),
           Len(get_elements(s, "script", S_type)),
           Len(anchors),
           Len(get_elements(s, "a", S_attr_href_hash)),
           Count(anchors, LAMBDA a : Contains(S_http, get(a, S_href, V_empty))),
           Count(anchors, LAMBDA a : Contains(S_com, get(a, S_href, V_empty))),
           Len(tags("input")),
           Len(get_elements(s, "input", S_attr_type_password)),
           Len(hidden_elements),
           Len(hidden_inputs),
           Len(tags("object")),
           Len(tags("embed")),
           Len(tags("frame")),
           Len(tags("iframe")),
           Len(get_elements(s, "iframe", S_src)),
           Count(get_elements(s, "iframe", S_src),
                 LAMBDA e : Contains(S_http, get(e, S_src, V_empty))),
           Len(tags("center")),
           Len(tags("img")),
           Len(get_elements(s, "img", S_src)),
           Len(tags("meta")),
           Len(get_elements(s, "link", S_href)),
           Count(get_elements(s, "link", S_href),
                 LAMBDA e : Contains(S_http, get(e, S_href, V_empty))),
           Count(get_elements(s, "link", S_href),
                 LAMBDA e : Contains(S_css, get(e, S_href, V_empty))),
           Len(get_elements(s, "link", S_type)),
           Len(get_elements(s, "link", S_attr_type_rss)),
           Len(get_elements(s, "link", S_attr_rel_shortlink)),
           Count(s, LAMBDA e : has_attr(e, S_href)),
           Len(form_actions),
           Count(form_actions, LAMBDA f : Contains(S_http, action(f))),
           Len(tags("strong")),
           int(no_hrefs_flag(hrefs)),
           int(internal_hrefs_flag(hrefs_internal, hrefs)),
           Len(hrefs_internal),
           int(external_hrefs_flag(hrefs_http, hrefs)),
           Len(hrefs_http),
           Len(get_elements(s, "link", S_attr_rel_icon)),
           int(Count(get_elements(s, "link", S_attr_rel_icon),
                     LAMBDA e : Contains(S_http, get(e, S_href, V_empty))) > 0),
           Count(form_actions, LAMBDA f : Contains(S_php, action(f))),
           Count(form_actions, LAMBDA f : Contains(S_hash, action(f))),
           Count(form_actions, LAMBDA f : \/ Contains(S_jsvoid_call, action(f))
                                          \/ Contains(S_jsvoid0, action(f))),
           int(malicious_form),
           html_most_common_of(hrefs),
           Count(get_elements(s, "link", S_attr_rel_stylesheet),
                 LAMBDA e : ~Contains(S_http, get(e, S_href, V_empty))),
           Count(get_elements(s, "link", S_attr_rel_stylesheet),
                 LAMBDA e : Contains(S_http, get(e, S_href, V_empty))),
           Len(get_elements(s, "a", S_attr_href_content)),
           Len(get_elements(s, "a", S_attr_href_void)) >>

-----------------------------------------------------------------------------
(* get_text_f.                                                             *)

\* the end (inclusive) of the run of non-whitespace that starts at i
RECURSIVE WordEnd(_, _)
WordEnd(s, i) == IF i + 1 <= Len(s) /\ ~IsSpace(s[i + 1]) THEN WordEnd(s, i + 1) ELSE i

\* html.split(): the maximal runs of non-whitespace, scanning from i
RECURSIVE split(_, _)
split(s, i) ==
    IF i > Len(s) THEN <<>>
    ELSE IF IsSpace(s[i]) THEN split(s, i + 1)
    ELSE With(WordEnd(s, i), LAMBDA e : <<SubSeq(s, i, e)>> \o split(s, e + 1))

\* len(html.splitlines()): \n, \r and \r\n end a line; a last line needs no end
NumLines(s) ==
    LET ends == {i \in 1..Len(s) :
                    \/ s[i] = "\n"
                    \/ s[i] = "\r" /\ ~(i < Len(s) /\ s[i + 1] = "\n")}
    IN  Cardinality(ends) + (IF s # <<>> /\ Len(s) \notin ends THEN 1 ELSE 0)

\* len(re.compile(r'\s{2,}').findall(s)): the whitespace runs of two or more
NumBlankRuns(s) ==
    Cardinality({i \in 1..Len(s) :
        /\ IsSpace(s[i])
        /\ ~(i > 1 /\ IsSpace(s[i - 1]))
        /\ RunEnd(s, i, FALSE) > i})

_text_keywords == <<K_suspended, K_blocked, K_forbidden, K_denied, K_restricted>>

\* len(_text_patterns[0].findall(s)) > 0
HasBlockedKeyword(s) ==
    \E low \in {Lower(s)} :
        \E i \in 1..Len(s) :
            /\ WordBoundary(s, i)
            /\ \E k \in 1..Len(_text_keywords) :
                  /\ MatchAt(_text_keywords[k], low, i)
                  /\ WordBoundary(s, i + Len(_text_keywords[k]))

RECURSIVE SumLen(_)
SumLen(ws) == IF ws = <<>> THEN 0 ELSE Len(Head(ws)) + SumLen(Tail(ws))

\* get_text_f(html). exc names the try block (lines 176, 186, 190) in which an
\* exception is raised and caught, "none" for a call without one.
get_text_f(html, exc) ==
    IF html.tag = "none" \/ html.v = S_None THEN <<-1, -1, -1, -1, -1, -1>>
    ELSE
    With(split(html.v, 1), LAMBDA words :
    LET counts == IF exc = "words" THEN <<0, 0, 0, 0>>
                  ELSE << Len(words),
                          NumLines(html.v),
                          Cardinality({words[i] : i \in 1..Len(words)}),
                          IF words # <<>> THEN Quotient(SumLen(words), Len(words)) ELSE 0 >>
        html_num_of_blank_spaces == IF exc = "blank" THEN 0 ELSE NumBlankRuns(html.v)
        blocked_keywords_count ==
            IF exc = "blocked" THEN 0 ELSE IF HasBlockedKeyword(html.v) THEN 1 ELSE 0
        html_blocked_keywords_label == IF blocked_keywords_count > 0 THEN 1 ELSE 0
    IN  << counts[1], counts[2], counts[3], counts[4],
           html_blocked_keywords_label, html_num_of_blank_spaces >>)

-----------------------------------------------------------------------------
(* The feature columns.                                                    *)

\* the targets of zip(*chunk["soup"].apply(get_tags_f)) (lines 229-250)
TAGS_TARGETS == <<
    "html_num_of_tags", "html_num_of_paragraphs", "html_num_of_divs",
    "html_num_of_titles", "html_num_of_external_js", "html_num_of_links",
    "html_num_of_scripts", "html_num_of_scripts_async", "html_num_of_scripts_type",
    "html_num_of_anchors", "html_num_of_anchors_to_hash",
    "html_num_of_anchors_to_https", "html_num_of_anchors_to_com", "html_num_of_inputs",
    "html_num_of_input_password", "html_num_of_hidden_elements",
    "html_num_of_input_hidden", "html_num_of_objects", "html_num_of_embeds",
    "html_num_of_frame", "html_num_of_iframe", "html_num_of_iframe_src",
    "html_num_of_iframe_src_https", "html_num_of_center", "html_num_of_imgs",
    "html_num_of_imgs_src", "html_num_of_meta", "html_num_of_links_href",
    "html_num_of_links_href_https", "html_num_of_links_href_css",
    "html_num_of_links_type", "html_num_of_link_type_app", "html_num_of_link_rel",
    "html_num_of_all_hrefs", "html_num_of_form_action", "html_num_of_form_http",
    "html_num_of_strong", "html_no_hrefs", "html_internal_href_ratio",
    "html_num_of_internal_hrefs", "html_external_href_ratio",
    "html_num_of_external_href", "html_num_of_icon", "html_icon_external",
    "html_num_of_form_php", "html_num_of_form_hash", "html_num_of_form_js",
    "html_malicious_form", "html_most_common", "html_num_of_css_internal",
    "html_num_of_css_external", "html_num_of_anchors_to_content",
    "html_num_of_anchors_to_void" >>

\* the targets of zip(*chunk["html_decompressed"].apply(get_text_f)) (lines 252-253)
TEXT_TARGETS == <<
    "html_num_of_words", "html_num_of_lines", "html_unique_words",
    "html_average_word_len", "html_blocked_keywords_label", "html_num_of_blank_spaces" >>

\* the targets of zip(*chunk["js_inline"].apply(get_js_f)) (lines 255-265)
JS_TARGETS == <<
    "html_create_element", "html_write", "html_char_code_at", "html_concat",
    "html_escape", "html_eval", "html_exec", "html_from_char_code", "html_link",
    "html_parse_int", "html_replace", "html_search", "html_substring", "html_unescape",
    "html_add_event_listener", "html_set_interval", "html_set_timeout", "html_push",
    "html_index_of", "html_document_write", "html_get", "html_find",
    "html_document_create_element", "html_window_set_timeout",
    "html_window_set_interval", "html_hex_encoding", "html_unicode_encoding",
    "html_long_variable_name" >>

\* HTML_FEATURE_COLUMNS without the column of the pattern added last
HTML_FEATURE_COLUMNS_stale ==
    SubSeq(TAGS_TARGETS \o TEXT_TARGETS \o JS_TARGETS, 1,
           Len(TAGS_TARGETS) + Len(TEXT_TARGETS) + Len(JS_TARGETS) - 1)

\* HTML_FEATURE_COLUMNS (lines 25-48): the columns the timeout path sets to -1
HTML_FEATURE_COLUMNS == <<
    "html_num_of_tags", "html_num_of_paragraphs", "html_num_of_divs",
    "html_num_of_titles", "html_num_of_external_js", "html_num_of_links",
    "html_num_of_scripts", "html_num_of_scripts_async", "html_num_of_scripts_type",
    "html_num_of_anchors", "html_num_of_anchors_to_hash",
    "html_num_of_anchors_to_https", "html_num_of_anchors_to_com", "html_num_of_inputs",
    "html_num_of_input_password", "html_num_of_hidden_elements",
    "html_num_of_input_hidden", "html_num_of_objects", "html_num_of_embeds",
    "html_num_of_frame", "html_num_of_iframe", "html_num_of_iframe_src",
    "html_num_of_iframe_src_https", "html_num_of_center", "html_num_of_imgs",
    "html_num_of_imgs_src", "html_num_of_meta", "html_num_of_links_href",
    "html_num_of_links_href_https", "html_num_of_links_href_css",
    "html_num_of_links_type", "html_num_of_link_type_app", "html_num_of_link_rel",
    "html_num_of_all_hrefs", "html_num_of_form_action", "html_num_of_form_http",
    "html_num_of_strong", "html_no_hrefs", "html_internal_href_ratio",
    "html_num_of_internal_hrefs", "html_external_href_ratio",
    "html_num_of_external_href", "html_num_of_icon", "html_icon_external",
    "html_num_of_form_php", "html_num_of_form_hash", "html_num_of_form_js",
    "html_malicious_form", "html_most_common", "html_num_of_css_internal",
    "html_num_of_css_external", "html_num_of_anchors_to_content",
    "html_num_of_anchors_to_void", "html_num_of_words", "html_num_of_lines",
    "html_unique_words", "html_average_word_len", "html_blocked_keywords_label",
    "html_num_of_blank_spaces", "html_create_element", "html_write",
    "html_char_code_at", "html_concat", "html_escape", "html_eval", "html_exec",
    "html_from_char_code", "html_link", "html_parse_int", "html_replace",
    "html_search", "html_substring", "html_unescape", "html_add_event_listener",
    "html_set_interval", "html_set_timeout", "html_push", "html_index_of",
    "html_document_write", "html_get", "html_find", "html_document_create_element",
    "html_window_set_timeout", "html_window_set_interval", "html_hex_encoding",
    "html_unicode_encoding", "html_long_variable_name" >>


-----------------------------------------------------------------------------
(* The html cell of a row, decompress_html and the parser.                 *)

\* a bytes object; a byte is written as its ASCII character, "0x1F" and "0x8B" are
\* the gzip magic; "0xFF" and a lone "0x8B" are not UTF-8
Bytes(bs) == [tag |-> "bytes", v |-> bs]
\* the key compressed_html is not in the dict
Missing == [tag |-> "missing"]
\* the dict of the html column, by what it holds under compressed_html
Dict(compressed_html) == [tag |-> "dict", compressed_html |-> compressed_html]

GzipMagic == <<"0x1F", "0x8B">>
\* gzip.compress(data), the deflate stream kept as the data
gzip_compress(data) == GzipMagic \o data

\* gzip.decompress(b): [ok, data]; not ok is BadGzipFile / EOFError
gzip_decompress(b) ==
    IF Len(b) >= Len(GzipMagic) /\ SubSeq(b, 1, Len(GzipMagic)) = GzipMagic
    THEN [ok |-> TRUE, data |-> SubSeq(b, Len(GzipMagic) + 1, Len(b))]
    ELSE [ok |-> FALSE, data |-> <<>>]

\* bytes.decode('utf-8'): [ok, text]; not ok is UnicodeDecodeError
decode_utf8(data) ==
    IF \E i \in 1..Len(data) : data[i] \in {"0xFF", "0x8B"}
    THEN [ok |-> FALSE, text |-> <<>>]
    ELSE [ok |-> TRUE, text |-> data]

\* Python truth of the values a cell holds
Truthy(x) ==
    CASE x.tag = "none" -> FALSE
      [] x.tag = "missing" -> FALSE
      [] x.tag = "bytes" -> x.v # <<>>
      [] x.tag = "str" -> x.v # <<>>
      [] x.tag = "list" -> x.v # <<>>
      [] OTHER -> TRUE

\* decompress_html returning '' where it returns None after an error
decompress_html_empty_on_error(compressed_html, interrupted) ==
    IF interrupted THEN Str(<<>>)
    ELSE IF Truthy(compressed_html)
    THEN LET d == gzip_decompress(compressed_html.v)
             t == decode_utf8(d.data)
         IN  IF d.ok /\ t.ok THEN Str(t.text) ELSE Str(<<>>)
    ELSE None

\* decompress_html(compressed_html). interrupted: an exception that is no gzip or
\* decoding error is raised inside the try block; `except Exception` catches it too.
decompress_html(compressed_html, interrupted) ==
    IF interrupted THEN None
    ELSE IF Truthy(compressed_html)
    THEN LET d == gzip_decompress(compressed_html.v)
             t == decode_utf8(d.data)
         IN  IF d.ok /\ t.ok THEN Str(t.text) ELSE None
    ELSE None

\* line 224: whether evaluating the lambda on cell x raises (TypeError:
\* `'compressed_html' in x` on a float)
DecompressRaises(x) == x.tag = "nan"

\* line 224: whether the lambda calls decompress_html on cell x
CallsDecompress(x) == x.tag = "dict" /\ Truthy(x.compressed_html)

\* line 224: the lambda on a cell on which it does not raise
DecompressCell(x, interrupted) ==
    IF CallsDecompress(x) THEN decompress_html(x.compressed_html, interrupted) ELSE None

\* BeautifulSoup(html, 'html.parser') on the texts the model draws
BeautifulSoup(html) ==
    CASE html = T_empty_html -> Soup(<<Tag("html", <<>>, <<>>)>>)
      [] html = T_two_anchors ->
           Soup(<<Tag("a", <<<<S_href, V_evil>>>>, <<"x">>),
                  Tag("a", <<<<S_href, S_hash>>>>, <<"y">>)>>)
      [] html = T_page ->
           Soup(<<Tag("a", <<<<S_href, S_hash>>>>, <<"x">>),
                  Tag("script", <<>>, B_eval)>>)
      [] OTHER -> Soup(<<>>)

\* line 225
SoupCell(html) == IF html.tag # "none" THEN BeautifulSoup(html.v) ELSE None

-----------------------------------------------------------------------------
(* DataFrames: a sequence of rows, a row a function from column names.     *)

Range(xs) == {xs[i] : i \in 1..Len(xs)}

\* where each name stands in the sequence `names`
IndexOf(names) ==
    [c \in Range(names) |-> CHOOSE k \in 1..Len(names) : names[k] = c]
TagsIndex == IndexOf(TAGS_TARGETS)
TextIndex == IndexOf(TEXT_TARGETS)
JsIndex == IndexOf(JS_TARGETS)

\* (chunk[t1], ..., chunk[tn]) = zip(*vals): row i gets vals[i][k] in column tk;
\* index = IndexOf(targets). Existing columns are overwritten.
Assign(chunk, index, vals) ==
    [i \in 1..Len(chunk) |-> [c \in DOMAIN index |-> vals[i][index[c]]] @@ chunk[i]]

\* chunk[names] = v, a scalar
AssignScalar(chunk, names, v) ==
    [i \in 1..Len(chunk) |-> [c \in names |-> v] @@ chunk[i]]

\* chunk[name] = chunk[src].apply(F)
AssignColumn(chunk, name, F(_)) ==
    [i \in 1..Len(chunk) |-> (name :> F(i)) @@ chunk[i]]

\* DataFrame.drop(columns=cols, errors="ignore")
DropColumns(chunk, cols) ==
    [i \in 1..Len(chunk) |-> [c \in (DOMAIN chunk[i]) \ cols |-> chunk[i][c]]]

INTERMEDIATE_COLUMNS == {"html_decompressed", "soup", "js_inline"}

\* df.iloc[a:b].copy() with 0-based a, b as in Python
iloc(df, a, b) ==
    LET lo == IF a < Len(df) THEN a ELSE Len(df)
        hi == IF b < Len(df) THEN b ELSE Len(df)
    IN  IF lo < hi THEN SubSeq(df, lo + 1, hi) ELSE <<>>

\* line 284 without its remainder term: the rows after the last full chunk are lost
num_chunks_floor(df, chunk_size) == Len(df) \div chunk_size

\* lines 284-285
num_chunks_of(df, chunk_size) ==
    (Len(df) \div chunk_size) + (IF Len(df) % chunk_size # 0 THEN 1 ELSE 0)
Partition(df, chunk_size) ==
    [i \in 1..num_chunks_of(df, chunk_size) |->
        iloc(df, (i - 1) * chunk_size, i * chunk_size)]

\* the columns of a frame: the union over its rows
Columns(frame) == UNION {DOMAIN frame[i] : i \in 1..Len(frame)}

RECURSIVE Flatten(_)
Flatten(frames) ==
    IF frames = <<>> THEN <<>> ELSE Head(frames) \o Flatten(Tail(frames))

\* concat of the frames in the reverse of the list order
concat_reversed(frames) ==
    LET rows == Flatten([k \in 1..Len(frames) |-> frames[Len(frames) + 1 - k]])
        cols == Columns(rows)
    IN  [i \in 1..Len(rows) |->
            [c \in cols |-> IF c \in DOMAIN rows[i] THEN rows[i][c] ELSE NaN]]

\* concat(processed_chunks, ignore_index=True): the rows in list order, a column
\* a frame lacks filled with NaN
concat(frames) ==
    LET rows == Flatten(frames)
        cols == Columns(rows)
    IN  [i \in 1..Len(rows) |->
            [c \in cols |-> IF c \in DOMAIN rows[i] THEN rows[i][c] ELSE NaN]]

-----------------------------------------------------------------------------
(* The inputs drawn.                                                       *)

\* the html cells of the rows the batches are cut from: two pages, a document
\* whose text is the four characters None, a missing cell (None), a float NaN,
\* bytes that are no gzip, empty bytes, and gzip of bytes that are no UTF-8
CellRing == <<
    Dict(Bytes(gzip_compress(T_page))),
    Dict(Bytes(gzip_compress(T_page))),
    Dict(Bytes(gzip_compress(S_None))),
    None,
    NaN,
    Dict(Bytes(<<"x", "y">>)),
    Dict(Bytes(<<>>)),
    Dict(Bytes(gzip_compress(<<"0xFF">>))) >>

\* row i of a batch: the html cell and the passthrough columns
InputRow(i, cell) == [html |-> cell, label |-> "malware", domain_name |-> i]

\* the batch of n rows whose cells are CellRing[start], CellRing[start + 1], ...
Batch(start, n) ==
    [i \in 1..n |-> InputRow(i, CellRing[((start + i - 2) % Len(CellRing)) + 1])]

-----------------------------------------------------------------------------
(* State.                                                                  *)
VARIABLES
    df,          \* the batch given to transform_html
    chunk_size,  \* its chunk_size argument
    mainpc,      \* transform_html: "start", "parallel", "returned", "raised"; "idle"
    chunks,      \* the chunk frames, each owned by the worker that runs it
    wpc,         \* per chunk: where para_transform_chunk is
    fired,       \* per chunk: whether its SIGALRM has been delivered
    result,      \* what transform_html returned
    fn_soup,     \* SpecFn: the soup given to get_tags_f, and to line 226
    fn_html,     \* SpecFn: the text given to get_text_f
    fn_out       \* SpecFn: what get_tags_f, get_text_f and get_js_f returned

vars == <<df, chunk_size, mainpc, chunks, wpc, fired, result, fn_soup, fn_html, fn_out>>
orch_vars == <<df, chunk_size, mainpc, chunks, wpc, fired, result>>
fn_vars == <<fn_soup, fn_html, fn_out>>

\* the statements of the with block of para_transform_chunk, in order
RunningSteps == <<"decompress", "soup", "js_inline", "tags", "text", "js", "drop">>
IsRunning(pc) == pc \in Range(RunningSteps)

Unset == [tag |-> "unset"]
FnIdle ==
    /\ fn_soup = None
    /\ fn_html = None
    /\ fn_out = [tags |-> Unset, text |-> Unset, js |-> Unset]

Init ==
    /\ \E start \in 1..Len(CellRing), n \in 0..MaxRows : df = Batch(start, n)
    /\ chunk_size \in 1..MaxChunkSize
    /\ mainpc = "start"
    /\ chunks = <<>>
    /\ wpc = <<>>
    /\ fired = <<>>
    /\ result = <<>>
    /\ FnIdle

-----------------------------------------------------------------------------
(* transform_html.                                                         *)

\* lines 284-288: the chunks are cut and copied and handed to Parallel
Split ==
    /\ mainpc = "start"
    /\ chunks' = Partition(df, chunk_size)
    /\ wpc' = [i \in 1..num_chunks_of(df, chunk_size) |-> "pending"]
    /\ fired' = [i \in 1..num_chunks_of(df, chunk_size) |-> FALSE]
    /\ mainpc' = "parallel"
    /\ UNCHANGED <<df, chunk_size, result, fn_vars>>

\* a loky worker takes the next task: tasks start in list order, NJobs at a time.
\* Timeout.__enter__ arms the alarm.
Dispatch(c) ==
    /\ mainpc = "parallel"
    /\ wpc[c] = "pending"
    /\ \A d \in 1..(c - 1) : wpc[d] # "pending"
    /\ Cardinality({d \in 1..Len(wpc) : IsRunning(wpc[d])}) < NJobs
    /\ wpc' = [wpc EXCEPT ![c] = "decompress"]
    /\ UNCHANGED <<df, chunk_size, mainpc, chunks, fired, result, fn_vars>>

\* the rows of chunk c in which the alarm, landing in statement `step`, is caught
\* by an `except Exception` of the extractor running there
SwallowRows(c, step) ==
    IF fired[c] THEN {}
    ELSE {r \in 1..Len(chunks[c]) :
            CASE step = "decompress" -> CallsDecompress(chunks[c][r]["html"])
              [] step = "tags" -> chunks[c][r]["soup"].tag # "none"
              [] step = "text" ->
                   /\ chunks[c][r]["html_decompressed"].tag # "none"
                   /\ chunks[c][r]["html_decompressed"].v # S_None
              [] OTHER -> FALSE}

\* lines 223-224. sw = 0: no alarm during the statement; sw = r: the alarm is
\* delivered while row r is inside the try block of decompress_html.
StepDecompress(c, sw) ==
    /\ mainpc = "parallel"
    /\ wpc[c] = "decompress"
    /\ sw = 0 \/ sw \in SwallowRows(c, "decompress")
    /\ IF \E r \in 1..Len(chunks[c]) : DecompressRaises(chunks[c][r]["html"])
       THEN \* the TypeError is no TimeoutError: it leaves para_transform_chunk
            /\ wpc' = [wpc EXCEPT ![c] = "raised"]
            /\ UNCHANGED chunks
       ELSE /\ chunks' = [chunks EXCEPT ![c] =
                 AssignColumn(@, "html_decompressed",
                     LAMBDA r : DecompressCell(chunks[c][r]["html"], r = sw))]
            /\ wpc' = [wpc EXCEPT ![c] = "soup"]
    /\ fired' = [fired EXCEPT ![c] = @ \/ sw # 0]
    /\ UNCHANGED <<df, chunk_size, mainpc, result, fn_vars>>

\* line 225
StepSoup(c) ==
    /\ mainpc = "parallel"
    /\ wpc[c] = "soup"
    /\ chunks' = [chunks EXCEPT ![c] =
          AssignColumn(@, "soup", LAMBDA r : SoupCell(chunks[c][r]["html_decompressed"]))]
    /\ wpc' = [wpc EXCEPT ![c] = "js_inline"]
    /\ UNCHANGED <<df, chunk_size, mainpc, fired, result, fn_vars>>

\* lines 226-227
StepJsInline(c) ==
    /\ mainpc = "parallel"
    /\ wpc[c] = "js_inline"
    /\ chunks' = [chunks EXCEPT ![c] =
          AssignColumn(@, "js_inline", LAMBDA r : js_inline_of(chunks[c][r]["soup"]))]
    /\ wpc' = [wpc EXCEPT ![c] = "tags"]
    /\ UNCHANGED <<df, chunk_size, mainpc, fired, result, fn_vars>>

\* tuple unpacking of zip(*...): ValueError unless every row gave Len(targets) values
UnpackRaises(targets, vals) == \E r \in DOMAIN vals : Len(vals[r]) # Len(targets)

\* one extractor statement: the targets are assigned, or the unpacking raises
ExtractStep(c, next, targets, index, vals) ==
    IF UnpackRaises(targets, vals)
    THEN /\ wpc' = [wpc EXCEPT ![c] = "raised"]
         /\ UNCHANGED chunks
    ELSE /\ chunks' = [chunks EXCEPT ![c] = Assign(@, index, vals)]
         /\ wpc' = [wpc EXCEPT ![c] = next]

\* lines 229-250. sw = r: the alarm is delivered while row r is inside the try
\* block of get_tags_f (lines 108-112).
StepTags(c, sw) ==
    /\ mainpc = "parallel"
    /\ wpc[c] = "tags"
    /\ sw = 0 \/ sw \in SwallowRows(c, "tags")
    /\ ExtractStep(c, "text", TAGS_TARGETS, TagsIndex,
          [r \in 1..Len(chunks[c]) |->
              get_tags_f(chunks[c][r]["soup"], IF r = sw THEN "anchors" ELSE "none")])
    /\ fired' = [fired EXCEPT ![c] = @ \/ sw # 0]
    /\ UNCHANGED <<df, chunk_size, mainpc, result, fn_vars>>

\* lines 252-253. sw = r, blk: the alarm is delivered while row r is inside try
\* block blk of get_text_f.
StepText(c, sw, blk) ==
    /\ mainpc = "parallel"
    /\ wpc[c] = "text"
    /\ \/ sw = 0 /\ blk = "none"
       \/ sw \in SwallowRows(c, "text") /\ blk \in {"words", "blank", "blocked"}
    /\ ExtractStep(c, "js", TEXT_TARGETS, TextIndex,
          [r \in 1..Len(chunks[c]) |->
              get_text_f(chunks[c][r]["html_decompressed"], IF r = sw THEN blk ELSE "none")])
    /\ fired' = [fired EXCEPT ![c] = @ \/ sw # 0]
    /\ UNCHANGED <<df, chunk_size, mainpc, result, fn_vars>>

\* lines 255-265
StepJs(c) ==
    /\ mainpc = "parallel"
    /\ wpc[c] = "js"
    /\ ExtractStep(c, "drop", JS_TARGETS, JsIndex,
          [r \in 1..Len(chunks[c]) |-> get_js_f(chunks[c][r]["js_inline"])])
    /\ UNCHANGED <<df, chunk_size, mainpc, fired, result, fn_vars>>

\* lines 268-270: the intermediate columns go, the chunk is returned and
\* Timeout.__exit__ disarms the alarm
StepDrop(c) ==
    /\ mainpc = "parallel"
    /\ wpc[c] = "drop"
    /\ chunks' = [chunks EXCEPT ![c] = DropColumns(@, INTERMEDIATE_COLUMNS)]
    /\ wpc' = [wpc EXCEPT ![c] = "completed"]
    /\ UNCHANGED <<df, chunk_size, mainpc, fired, result, fn_vars>>

\* the column labels of HTML_FEATURE_COLUMNS
FeatureColumnSet == Range(HTML_FEATURE_COLUMNS)

\* the except branch setting -1 only in the columns the chunk does not hold yet
TimeoutFillMissingOnly(chunk) ==
    DropColumns([i \in 1..Len(chunk) |-> chunk[i] @@ [c \in FeatureColumnSet |-> -1]],
                INTERMEDIATE_COLUMNS)

\* lines 271-279: what the except TimeoutError branch makes of the chunk
TimeoutFill(chunk) ==
    DropColumns(AssignScalar(chunk, FeatureColumnSet, -1), INTERMEDIATE_COLUMNS)

\* Timeout.handler (lines 17-18) raises TimeoutError in whatever statement of the
\* with block is running, outside the try blocks of the extractors: it reaches
\* line 271
AlarmTimeout(c) ==
    /\ mainpc = "parallel"
    /\ IsRunning(wpc[c])
    /\ ~fired[c]
    /\ chunks' = [chunks EXCEPT ![c] = TimeoutFill(@)]
    /\ wpc' = [wpc EXCEPT ![c] = "timedout"]
    /\ fired' = [fired EXCEPT ![c] = TRUE]
    /\ UNCHANGED <<df, chunk_size, mainpc, result, fn_vars>>

\* Parallel re-raises in the caller the exception that left a task
Reraise ==
    /\ mainpc = "parallel"
    /\ \E c \in 1..Len(wpc) : wpc[c] = "raised"
    /\ mainpc' = "raised"
    /\ UNCHANGED <<df, chunk_size, chunks, wpc, fired, result, fn_vars>>

\* lines 293-294 with the test never true: the raw column stays
KeepHtml(frame) == frame

\* lines 293-294
DropHtml(frame) == IF "html" \in Columns(frame) THEN DropColumns(frame, {"html"}) ELSE frame

\* lines 291-296: Parallel has returned the chunks in task order. concat raises
\* ValueError ("No objects to concatenate") on an empty list.
Merge ==
    /\ mainpc = "parallel"
    /\ \A c \in 1..Len(wpc) : wpc[c] \in {"completed", "timedout"}
    /\ IF chunks = <<>>
       THEN /\ mainpc' = "raised"
            /\ UNCHANGED result
       ELSE /\ result' = DropHtml(concat(chunks))
            /\ mainpc' = "returned"
    /\ UNCHANGED <<df, chunk_size, chunks, wpc, fired, fn_vars>>

Next ==
    \/ Split
    \/ \E c \in 1..Len(wpc) : Dispatch(c)
    \/ \E c \in 1..Len(wpc) : \E sw \in 0..Len(chunks[c]) : StepDecompress(c, sw)
    \/ \E c \in 1..Len(wpc) : StepSoup(c)
    \/ \E c \in 1..Len(wpc) : StepJsInline(c)
    \/ \E c \in 1..Len(wpc) : \E sw \in 0..Len(chunks[c]) : StepTags(c, sw)
    \/ \E c \in 1..Len(wpc) : \E sw \in 0..Len(chunks[c]) :
          \E blk \in {"none", "words", "blank", "blocked"} : StepText(c, sw, blk)
    \/ \E c \in 1..Len(wpc) : StepJs(c)
    \/ \E c \in 1..Len(wpc) : StepDrop(c)
    \/ \E c \in 1..Len(wpc) : AlarmTimeout(c)
    \/ Reraise
    \/ Merge

Spec == Init /\ [][Next]_vars

-----------------------------------------------------------------------------
(* SpecFn: the extractors called directly.                                 *)

\* the elements the parse trees are built from
ElemLib == {
    Tag("html", <<>>, <<>>),
    Tag("a", <<<<S_href, V_evil>>>>, <<"x">>),
    Tag("a", <<<<S_href, S_hash>>>>, <<"y">>),
    Tag("a", <<<<S_href, V_local>>>>, <<"z">>),
    Tag("a", <<>>, <<"w">>),
    Tag("form", <<<<S_action, V_x_php>>>>, <<>>),
    Tag("input", <<<<S_type, S_hidden>>>>, <<>>),
    Tag("div", <<<<S_style, S_display_none>>>>, <<>>),
    Tag("link", <<<<S_rel, V_stylesheet>>, <<S_href, V_main_css>>>>, <<>>),
    Tag("script", <<<<S_src, V_cdn_js>>>>, <<>>),
    Tag("script", <<>>, B_eval2_write),
    Tag("script", <<>>, B_eval2),
    Tag("script", <<>>, B_write),
    Tag("script", <<<<S_nonce, V_nonce>>>>, B_unescape) }

\* soups of at most MaxElems elements, and no soup
SoupInputs ==
    {None} \cup {Soup(t) : t \in UNION {[1..n -> ElemLib] : n \in 0..MaxElems}}

\* decoded texts, and no text
TextInputs ==
    {None, Str(S_None), Str(V_empty), Str(T_words), Str(T_blocked), Str(T_empty_html)}

InitFn ==
    /\ \/ fn_soup \in SoupInputs /\ fn_html = None
       \/ fn_soup = None /\ fn_html \in TextInputs
    /\ fn_out = [tags |-> Unset, text |-> Unset, js |-> Unset]
    /\ df = <<>>
    /\ chunk_size = 1
    /\ mainpc = "idle"
    /\ chunks = <<>>
    /\ wpc = <<>>
    /\ fired = <<>>
    /\ result = <<>>

\* get_tags_f(fn_soup)
CallTags ==
    /\ mainpc = "idle"
    /\ fn_out.tags = Unset
    /\ fn_out' = [fn_out EXCEPT !.tags = List(get_tags_f(fn_soup, "none"))]
    /\ UNCHANGED <<orch_vars, fn_soup, fn_html>>

\* get_text_f(fn_html)
CallText ==
    /\ mainpc = "idle"
    /\ fn_out.text = Unset
    /\ fn_out' = [fn_out EXCEPT !.text = List(get_text_f(fn_html, "none"))]
    /\ UNCHANGED <<orch_vars, fn_soup, fn_html>>

\* get_js_f of the inline scripts of fn_soup (lines 226-227)
CallJs ==
    /\ mainpc = "idle"
    /\ fn_out.js = Unset
    /\ fn_out' = [fn_out EXCEPT !.js = List(get_js_f(js_inline_of(fn_soup)))]
    /\ UNCHANGED <<orch_vars, fn_soup, fn_html>>

NextFn == CallTags \/ CallText \/ CallJs

SpecFn == InitFn /\ [][NextFn]_vars
-----------------------------------------------------------------------------
(* Properties of transform_html (Spec).                                    *)

\* the chunk that row i of the batch belongs to, and its place in it
ChunkOfRow(i) == ((i - 1) \div chunk_size) + 1
PlaceInChunk(i) == ((i - 1) % chunk_size) + 1

Ended(c) == wpc[c] \in {"completed", "timedout"}

\* every column of HTML_FEATURE_COLUMNS is in the row and holds -1
AllSentinel(row) ==
    \A col \in FeatureColumnSet : col \in DOMAIN row /\ row[col] = -1

\* the feature columns a row gets from a pipeline that nothing interrupts
RowFeatures(cell) ==
    LET html == DecompressCell(cell, FALSE)
        soup == SoupCell(html)
        tags == get_tags_f(soup, "none")
        text == get_text_f(html, "none")
        js == get_js_f(js_inline_of(soup))
    IN  [c \in DOMAIN TagsIndex |-> tags[TagsIndex[c]]]
        @@ [c \in DOMAIN TextIndex |-> text[TextIndex[c]]]
        @@ [c \in DOMAIN JsIndex |-> js[JsIndex[c]]]
ExpectedByCell == [cell \in Range(CellRing) |-> RowFeatures(cell)]

\* the row holds exactly the uninterrupted features of its own html cell
HasOwnFeatures(row, cell) ==
    \A col \in DOMAIN ExpectedByCell[cell] :
        col \in DOMAIN row /\ row[col] = ExpectedByCell[cell][col]

IsPage(cell) == cell = Dict(Bytes(gzip_compress(T_page)))

\* C1 as stated: whenever transform_html has ended and every chunk completed or
\* timed out (the empty batch, with no chunk, included), it has returned a batch
\* with as many rows as its input.
C1_RowCountEveryBatch ==
    (mainpc \in {"returned", "raised"} /\ \A c \in 1..Len(wpc) : Ended(c))
        => (mainpc = "returned" /\ Len(result) = Len(df))

\* C2: in the returned batch row i is row i of the input: it carries the
\* passthrough values of input row i, and its features are those of input row i
\* (all -1 if its chunk timed out), whatever the order in which the chunks ran
\* and ended.
C2_RowOrder ==
    mainpc = "returned" =>
        /\ Len(result) = Len(df)
        /\ \A i \in 1..Len(df) :
              /\ result[i]["domain_name"] = df[i]["domain_name"]
              /\ result[i]["label"] = df[i]["label"]
              /\ wpc[ChunkOfRow(i)] = "timedout" => AllSentinel(result[i])
              /\ (wpc[ChunkOfRow(i)] = "completed" /\ ~fired[ChunkOfRow(i)])
                    => HasOwnFeatures(result[i], df[i]["html"])

\* a returned batch of several chunks, the first of which timed out while a later
\* one completed with the computed features of a page
C2_Witness ==
    /\ mainpc = "returned"
    /\ Len(chunks) >= 2
    /\ wpc[1] = "timedout"
    /\ \E i \in 1..Len(df) :
          /\ ChunkOfRow(i) > 1
          /\ wpc[ChunkOfRow(i)] = "completed"
          /\ IsPage(df[i]["html"])
          /\ result[i]["html_eval"] = 1

\* C3 as stated: a chunk whose alarm was delivered while its pipeline was
\* running does not end Completed.
C3_DeadlineMeansTimedOut ==
    \A c \in 1..Len(wpc) : wpc[c] = "completed" => ~fired[c]

\* C4: once a chunk is TimedOut every row of it holds -1 in every HTML feature
\* column; its rows stand at their places in the returned batch; and every chunk
\* that completed without an alarm holds the features it would hold had no chunk
\* timed out.
C4_TimedOutChunk ==
    \A c \in 1..Len(wpc) : wpc[c] = "timedout" =>
        /\ \A r \in 1..Len(chunks[c]) : AllSentinel(chunks[c][r])
        /\ mainpc = "returned" =>
              \A i \in 1..Len(df) : ChunkOfRow(i) = c =>
                  /\ i <= Len(result)
                  /\ result[i]["domain_name"] = df[i]["domain_name"]
                  /\ AllSentinel(result[i])
        /\ \A d \in 1..Len(wpc) : (wpc[d] = "completed" /\ ~fired[d]) =>
              \A r \in 1..Len(chunks[d]) :
                  HasOwnFeatures(chunks[d][r], chunks[d][r]["html"])

\* a returned batch in which a chunk holding a page timed out and another chunk
\* completed with the features of its page
C4_Witness ==
    /\ mainpc = "returned"
    /\ \E i, j \in 1..Len(df) :
          /\ wpc[ChunkOfRow(i)] = "timedout"
          /\ IsPage(df[i]["html"])
          /\ result[i]["html_num_of_tags"] = -1
          /\ wpc[ChunkOfRow(j)] = "completed"
          /\ ~fired[ChunkOfRow(j)]
          /\ result[j]["html_num_of_tags"] = 2

\* the HTML feature columns of a row of the returned batch
HtmlColumns(row) == (DOMAIN row) \ {"label", "domain_name"}

\* C5 as stated: 27 patterns, 86 sentinel columns, and 86 HTML feature columns in
\* every row of the returned batch.
C5_EightySixColumns ==
    mainpc = "returned" =>
        /\ Len(_patterns) = 27
        /\ Len(HTML_FEATURE_COLUMNS) = 86
        /\ \A i \in 1..Len(result) : Cardinality(HtmlColumns(result[i])) = 86

\* C5 amended: 28 patterns and 87 sentinel columns; every row of the returned
\* batch, of a completed and of a timed-out chunk alike, holds a number in each of
\* the same 87 HTML feature columns (53 structural + 6 text + 28 script-pattern).
C5_EightySevenColumns ==
    /\ Len(_patterns) = 28
    /\ Len(HTML_FEATURE_COLUMNS) = 87
    /\ Cardinality(FeatureColumnSet) = 87
    /\ Len(TAGS_TARGETS) = 53 /\ Len(TEXT_TARGETS) = 6 /\ Len(JS_TARGETS) = 28
    /\ FeatureColumnSet = Range(TAGS_TARGETS) \cup Range(TEXT_TARGETS) \cup Range(JS_TARGETS)
    /\ mainpc = "returned" =>
          \A i \in 1..Len(result) :
              /\ HtmlColumns(result[i]) = FeatureColumnSet
              /\ \A col \in FeatureColumnSet : result[i][col] \in Int

\* a returned batch with a row of a timed-out chunk and a row of a completed one
C5_Witness ==
    /\ mainpc = "returned"
    /\ \E c, d \in 1..Len(wpc) : wpc[c] = "timedout" /\ wpc[d] = "completed"
    /\ \E i \in 1..Len(result) : result[i]["html_long_variable_name"] = 0

\* the cells of C6: null, empty, not gzip, not UTF-8
AbsentCells ==
    {None, Dict(Bytes(<<>>)), Dict(Bytes(<<"x", "y">>)),
     Dict(Bytes(gzip_compress(<<"0xFF">>)))}

\* C6: a row whose compressed_html is null, empty, no gzip or no UTF-8 holds None
\* in html_decompressed once line 223 has run, and -1 in every HTML feature
\* column once its chunk has ended and in the returned batch; and such rows never
\* make para_transform_chunk raise.
C6_AbsentDocSentinel ==
    /\ \A c \in 1..Len(wpc) : \A r \in 1..Len(chunks[c]) :
          chunks[c][r]["html"] \in AbsentCells =>
              /\ "html_decompressed" \in DOMAIN chunks[c][r]
                    => chunks[c][r]["html_decompressed"] = None
              /\ Ended(c) => AllSentinel(chunks[c][r])
    /\ \A c \in 1..Len(wpc) :
          wpc[c] = "raised" =>
              \E r \in 1..Len(chunks[c]) : chunks[c][r]["html"] \notin AbsentCells
    /\ mainpc = "returned" =>
          \A i \in 1..Len(df) :
              df[i]["html"] \in AbsentCells => AllSentinel(result[i])

\* a completed chunk that holds a row of bytes that are no UTF-8, all -1, beside
\* a page with computed features
C6_Witness ==
    /\ mainpc = "returned"
    /\ \E i, j \in 1..Len(df) :
          /\ df[i]["html"] = Dict(Bytes(gzip_compress(<<"0xFF">>)))
          /\ wpc[ChunkOfRow(i)] = "completed"
          /\ AllSentinel(result[i])
          /\ ChunkOfRow(j) = ChunkOfRow(i)
          /\ IsPage(df[j]["html"])
          /\ result[j]["html_num_of_tags"] = 2

\* C7 as stated: no fault inside a chunk's pipeline leaves para_transform_chunk
\* and aborts transform_html.
C7_NoFaultAbortsTheBatch ==
    ~(mainpc = "raised" /\ \E c \in 1..Len(wpc) : wpc[c] = "raised")

-----------------------------------------------------------------------------
(* Properties of the extractors (SpecFn).                                  *)

\* the inline scripts of fn_soup, <<>> without a soup
FnScripts == IF fn_soup.tag = "none" THEN <<>> ELSE js_inline_of(fn_soup).v

\* inline scripts that hold eval(x) twice, document.write(y) once and nothing else
IsEvalWriteExample ==
    FnScripts \in { <<Tag("script", <<>>, B_eval2_write)>>,
                    <<Tag("script", <<>>, B_eval2), Tag("script", <<>>, B_write)>>,
                    <<Tag("script", <<>>, B_write), Tag("script", <<>>, B_eval2)>> }

AnchorHrefs ==
    {i \in 1..Len(fn_soup.v) :
        /\ fn_soup.v[i].name = "a"
        /\ has_attr(fn_soup.v[i], S_href)
        /\ get(fn_soup.v[i], S_href, V_empty) # V_empty}
ExternalHrefs ==
    {i \in AnchorHrefs : Contains(S_http, get(fn_soup.v[i], S_href, V_empty))}

\* C9: html_external_href_ratio is 1 exactly when the hrefs containing "http" are
\* strictly more than half of the anchor hrefs; html_internal_href_ratio is 1
\* exactly when there are hrefs and those not containing "http" are at most half
\* of them; html_no_hrefs is 1 exactly when there are none; and the two anchors
\* http://evil.com and # give 2 anchors, 1 http anchor, no_hrefs 0, external 0.
C9_HrefRatioFlags ==
    (fn_out.tags # Unset /\ fn_soup.tag = "soup") =>
        LET v == fn_out.tags.v
            n == Cardinality(AnchorHrefs)
            e == Cardinality(ExternalHrefs)
            ext == v[TagsIndex["html_external_href_ratio"]]
            int == v[TagsIndex["html_internal_href_ratio"]]
            nohrefs == v[TagsIndex["html_no_hrefs"]]
        IN  /\ {ext, int, nohrefs} \subseteq {0, 1}
            /\ ext = 1 <=> 2 * e > n
            /\ int = 1 <=> (n > 0 /\ 2 * (n - e) <= n)
            /\ nohrefs = 1 <=> n = 0
            /\ n = 0 => (ext = 0 /\ int = 0)
            /\ fn_soup = BeautifulSoup(T_two_anchors) =>
                  /\ v[TagsIndex["html_num_of_anchors"]] = 2
                  /\ v[TagsIndex["html_num_of_anchors_to_https"]] = 1
                  /\ nohrefs = 0
                  /\ ext = 0

\* get_tags_f has returned for the two anchors, exactly half of them external
C9_Witness ==
    /\ fn_out.tags # Unset
    /\ fn_soup = BeautifulSoup(T_two_anchors)
    /\ Cardinality(AnchorHrefs) = 2
    /\ Cardinality(ExternalHrefs) = 1

\* C10 as stated: for <html></html> every one of the 53 structural values is 0.
C10_EmptyDocAllZero ==
    (fn_out.tags # Unset /\ fn_soup = BeautifulSoup(T_empty_html)) =>
        \A k \in 1..Len(TAGS_TARGETS) : fn_out.tags.v[k] = 0

\* C10 amended: for <html></html> get_tags_f returns 53 values, html_num_of_tags
\* is 1 (the html element), html_no_hrefs is 1 (there are no hrefs), and every
\* other value is 0.
C10_EmptyDocValues ==
    (fn_out.tags # Unset /\ fn_soup = BeautifulSoup(T_empty_html)) =>
        /\ Len(fn_out.tags.v) = Len(TAGS_TARGETS)
        /\ \A k \in 1..Len(TAGS_TARGETS) :
              fn_out.tags.v[k] =
                  IF TAGS_TARGETS[k] \in {"html_num_of_tags", "html_no_hrefs"} THEN 1 ELSE 0

\* get_tags_f has returned for <html></html>
C10_Witness ==
    /\ fn_out.tags # Unset
    /\ fn_soup = Soup(<<Tag("html", <<>>, <<>>)>>)
    /\ fn_out.tags.v[TagsIndex["html_num_of_tags"]] = 1

\* C11: html_num_of_anchors_to_hash equals the number of a elements whose href
\* attribute is "#" (one <a href="#"> gives 1).
C11_AnchorsToHash ==
    (fn_out.tags # Unset /\ fn_soup.tag = "soup") =>
        fn_out.tags.v[TagsIndex["html_num_of_anchors_to_hash"]] =
            Cardinality({i \in 1..Len(fn_soup.v) :
                            /\ fn_soup.v[i].name = "a"
                            /\ has_attr(fn_soup.v[i], S_href)
                            /\ get(fn_soup.v[i], S_href, V_empty) = S_hash})

\* the lifecycle state of chunk c; Faulted is a chunk that an exception other
\* than TimeoutError has left
Phase(c) ==
    IF mainpc = "returned" THEN "Merged"
    ELSE CASE wpc[c] = "pending" -> "Pending"
           [] IsRunning(wpc[c]) -> "Running"
           [] wpc[c] = "completed" -> "Completed"
           [] wpc[c] = "timedout" -> "TimedOut"
           [] OTHER -> "Faulted"

LifecycleOrder ==
    { <<"Pending", "Running">>, <<"Running", "Completed">>, <<"Running", "TimedOut">>,
      <<"Completed", "Merged">>, <<"TimedOut", "Merged">> }

\* C12: every chunk goes Pending, Running, then Completed or TimedOut, then
\* Merged, in that order and once (no step leads back, none leads from TimedOut
\* to Completed, none leads anywhere else), and transform_html does not end
\* while a chunk is short of Merged.
C12_ChunkLifecycle ==
    [][ /\ \A c \in DOMAIN wpc :
            /\ c \in DOMAIN wpc'
            /\ Phase(c)' = Phase(c) \/ <<Phase(c), Phase(c)'>> \in LifecycleOrder
        /\ mainpc' \in {"returned", "raised"} =>
            \A c \in DOMAIN wpc' : Phase(c)' = "Merged" ]_vars

\* C13: the partition of a batch of n rows with chunk_size c >= 1 has ceil(n/c)
\* chunks, none empty, every one but possibly the last of exactly c rows, and
\* row j of chunk k is input row (k-1)*c + j: contiguous, disjoint slices that
\* cover every row once, in input order.
C13_Partition ==
    mainpc \in {"parallel", "returned", "raised"} =>
        LET n == Len(df)
            c == chunk_size
            m == Len(chunks)
        IN  /\ m * c >= n
            /\ (m - 1) * c < n
            /\ Len(wpc) = m
            /\ \A k \in 1..m :
                  /\ Len(chunks[k]) >= 1
                  /\ Len(chunks[k]) <= c
                  /\ k < m => Len(chunks[k]) = c
                  /\ \A j \in 1..Len(chunks[k]) :
                        /\ (k - 1) * c + j <= n
                        /\ chunks[k][j]["domain_name"] = df[(k - 1) * c + j]["domain_name"]
                        /\ chunks[k][j]["label"] = df[(k - 1) * c + j]["label"]
                        /\ wpc[k] = "pending" => chunks[k][j] = df[(k - 1) * c + j]
            /\ Len(Flatten(chunks)) = n

\* a batch of three rows has been cut into a chunk of two and a chunk of one
C13_Witness ==
    /\ mainpc = "parallel"
    /\ Len(df) = 3
    /\ chunk_size = 2
    /\ Len(chunks) = 2
    /\ Len(chunks[1]) = 2
    /\ Len(chunks[2]) = 1
    /\ chunks[2][1] = df[3]

\* C14: whichever chunks completed or timed out, the returned frame has none
\* of html_decompressed, soup, js_inline and html, every other input column
\* is there with the input row's value, nothing but the HTML feature columns
\* is added, and no step changes the caller's batch df.
C14_FrameEffect ==
    /\ [](mainpc = "returned" =>
            /\ Len(result) = Len(df)
            /\ \A i \in 1..Len(result) :
                  /\ DOMAIN result[i] \cap (INTERMEDIATE_COLUMNS \cup {"html"}) = {}
                  /\ DOMAIN result[i] = (DOMAIN df[i] \ {"html"}) \cup FeatureColumnSet
                  /\ \A col \in DOMAIN df[i] \ {"html"} : result[i][col] = df[i][col])
    /\ [][df' = df]_vars

\* a batch has been returned of which one chunk completed and another timed out
C14_Witness ==
    /\ mainpc = "returned"
    /\ \E c \in 1..Len(wpc) : wpc[c] = "completed"
    /\ \E c \in 1..Len(wpc) : wpc[c] = "timedout"
    /\ \A i \in 1..Len(result) : result[i]["label"] = "malware" /\ "html" \in DOMAIN df[i]

\* C15: in every row of the returned batch either every HTML feature column is
\* -1 or none is.
C15_SentinelAllOrNothing ==
    mainpc = "returned" =>
        \A i \in 1..Len(result) :
            \/ AllSentinel(result[i])
            \/ \A col \in FeatureColumnSet : result[i][col] # -1
====
